---- MODULE Spec2Model ----
(***************************************************************************)
(* Order and resource-booking consistency of the hospitality back office.  *)
(*                                                                         *)
(* The model follows the service layer: app/services/order_service.py      *)
(* (create_order, update_order, split_order, delete_split_order) and       *)
(* app/services/event_service.py (create_event_booking,                    *)
(* update_event_booking, cancel_event_booking, is_room_available).         *)
(* Money is counted in whole currency units; Decimal arithmetic on the     *)
(* values used here is exact, so integers model it without loss.           *)
(*                                                                         *)
(* The database tables are the state.  Rows of items, meeting rooms and    *)
(* event bookings are administered outside the operations modelled here,   *)
(* so the initial states range over the tables these operations may find.  *)
(***************************************************************************)
EXTENDS Integers, Sequences, FiniteSets, TLC

(***************************************************************************)
(* Bounds of the model.                                                    *)
(***************************************************************************)
NumItems == 2
MaxStock == 2
MaxOrders == 2
\* order items one order may hold (update_order appends without limit)
MaxLines == 2
MaxCart == 2
\* quantity of one cart line
MaxQty == 1
\* quantity of one line of a split request
MaxSplitQty == 2

ItemIds == 1..NumItems
\* item ids a request may name: 0 is an id with no row in the items table
RequestItemIds == 0..NumItems
OrderIds == 1..MaxOrders
\* NULL of a nullable UUID column
NoOrder == 0

\* Item.price of the item rows (set outside the modelled operations)
ItemPrice(i) == i + 1

VARIABLES
    items,      \* items table: item id -> [quantity, price]
    orders,     \* orders table with its order_items: order id -> row
    nextId,     \* number of order rows ever inserted (primary keys are fresh)
    last,       \* the last service call: operation, input, outcome
    pc,         \* concurrent create_order sessions: position of each
    snap,       \* concurrent create_order sessions: items loaded by the SELECT
    req,        \* concurrent create_order sessions: the cart of each
    stock0,     \* concurrent sessions: the contended rows at the start
    lock,       \* session holding the row lock of the order (0: none)
    splits,     \* order_splits table: sequence of persisted bill splits
    billTotal,  \* total_amount of the order whose bill is split
    item_stocks,\* item_stocks table: sequence of stock entries
    password_resets, \* password_resets table: token -> row
    password,   \* User.password of the user the tokens belong to
    now,        \* the clock read by datetime.now()
    rooms,      \* meeting_rooms of the company: the version of their data
    cache,      \* redis: key -> cached value
    bookings,   \* event_bookings table: booking id -> row
    bpc,        \* concurrent booking requests: position of each
    breq        \* concurrent booking requests: the request of each

vars == <<items, orders, nextId, last, pc, snap, req, stock0, lock, splits,
          billTotal, item_stocks, password_resets, password, now, rooms, cache,
          bookings, bpc, breq>>

orderVars == <<items, orders, nextId>>
raceVars == <<pc, snap, req, stock0, lock>>
billVars == <<splits, billTotal>>
stockVars == <<item_stocks>>
authVars == <<password_resets, password, now>>
cacheVars == <<rooms, cache>>
bookingVars == <<bookings, bpc, breq>>

(***************************************************************************)
(* Orders: rows and pure helpers.                                          *)
(***************************************************************************)
\* an OrderItem row
OrderLine(i, q, p) == [item_id |-> i, quantity |-> q, price |-> p]

\* an absent order row
Absent ==
    [exists |-> FALSE, total_amount |-> 0, is_split |-> FALSE,
     original_order_id |-> NoOrder, payment_url |-> "none", lines |-> <<>>,
     status |-> "New"]

\* sum over order items of price x quantity
RECURSIVE LinesTotal(_)
LinesTotal(lines) ==
    IF lines = <<>> THEN 0
    ELSE Head(lines).price * Head(lines).quantity + LinesTotal(Tail(lines))

\* total quantity of item i on a sequence of lines (order items or cart lines)
RECURSIVE QtyOf(_, _)
QtyOf(lines, i) ==
    IF lines = <<>> THEN 0
    ELSE (IF Head(lines).item_id = i THEN Head(lines).quantity ELSE 0)
         + QtyOf(Tail(lines), i)

\* the carts a request may carry: up to MaxCart lines, quantity > 0 (Field(gt=0))
CartLines == [item_id : RequestItemIds, quantity : 1..MaxQty]
Carts == UNION {[1..n -> CartLines] : n \in 0..MaxCart}

\* split requests: OrderItemSplit.quantity is an unconstrained int
SplitLines == [item_id : RequestItemIds, quantity : 0..MaxSplitQty]
SplitRequests == UNION {[1..n -> SplitLines] : n \in 0..MaxCart}

\* A call and its outcome.  user is the caller (current_user), link is how
\* amounts the amounts the payment links were requested for, link how the
\* payment-link request of the call went ("unused" when none was made), cache_up whether the cache answered,
\* deleted the cache keys the call deleted, before the row of the original
\* order as a committed split_order found it.
NoCall == [op |-> "none", result |-> "none", committed |-> FALSE,
           order |-> NoOrder, new |-> NoOrder, cart |-> <<>>,
           link |-> "unused", cache_up |-> TRUE, deleted |-> {}, before |-> Absent,
           user |-> "guest", amounts |-> <<>>]

Call(op, result, committed, order, new, cart) ==
    [op |-> op, result |-> result, committed |-> committed,
     order |-> order, new |-> new, cart |-> cart,
     link |-> "unused", cache_up |-> TRUE, deleted |-> {}, before |-> Absent,
     user |-> "guest", amounts |-> <<>>]

\* the call of another user than the guest who owns the orders
CallBy(user, op, result, committed, order, new, cart) ==
    [Call(op, result, committed, order, new, cart) EXCEPT !.user = user]

\* the same call with what its collaborators did
WithEnv(c, linkOk, cacheUp, deleted) ==
    [c EXCEPT !.link = IF linkOk THEN "ok" ELSE "failed",
              !.cache_up = cacheUp, !.deleted = deleted]

\* the users of the order operations: the guest who owns the orders and the
\* company (tenant) they are placed with
OrderCallers == {"guest", "tenant"}

\* Order.guest_id and Order.company_id of every order: create_order is called
\* by the one guest, for the one company
OrderGuest == "guest"
OrderCompany == "tenant"

\* a user who is neither the guest nor a member of the company
Stranger == "stranger"
Users == OrderCallers \cup {Stranger}

\* the company a user acts for: the company itself for a company user, no
\* company of the orders for anyone else
CompanyIdOf(user) == IF user = OrderCompany THEN OrderCompany ELSE "none"

\* the cache keys of the order lists
CompanyOrdersKey(user_id) == <<"orders:company", user_id>>
GuestOrdersKey(user_id) == <<"orders:guest", user_id>>

\* the session's changes are written to the database although the call failed
DiscardedFlushed(db, session) == session

\* a handler that raises without commit: the request's session is closed and
\* the changes made to the objects it loaded are dropped
Discarded(db, session) == db

\* the session's changes stay although the handler rolled back
RolledBackKept(db, session) == session

\* await db.rollback() in the except clauses
RolledBack(db, session) == db

(***************************************************************************)
(* create_order                                                            *)
(***************************************************************************)
\* "Reduce stock" with the decrement left out
ReserveSkipped(its, d) == its

\* item.quantity -= item_data.quantity
Reserve(its, d) == [its EXCEPT ![d.item_id].quantity = @ - d.quantity]

\* the validation loop over the cart, on the items loaded into the session
RECURSIVE CreateLoop(_, _, _, _)
CreateLoop(its, cart, lines, total) ==
    IF cart = <<>>
    THEN [err |-> "ok", items |-> its, lines |-> lines, total |-> total]
    ELSE LET d == Head(cart) IN
         IF d.item_id \notin ItemIds
         THEN [err |-> "ItemNotFound", items |-> its, lines |-> lines, total |-> total]
         ELSE IF its[d.item_id].quantity < d.quantity
         THEN [err |-> "InsufficientStock", items |-> its, lines |-> lines, total |-> total]
         ELSE CreateLoop(Reserve(its, d), Tail(cart),
                         Append(lines, OrderLine(d.item_id, d.quantity, its[d.item_id].price)),
                         total + its[d.item_id].price * d.quantity)

\* the rows db.commit() writes for a new order; the payment link is requested
\* after the first commit, and only its success sets payment_url and
\* original_order_id (second commit)
NewOrderRow(id, r, linkOk) ==
    [exists |-> TRUE, total_amount |-> r.total, is_split |-> FALSE,
     original_order_id |-> IF linkOk THEN id ELSE NoOrder,
     payment_url |-> IF linkOk THEN "link" ELSE "none",
     lines |-> r.lines, status |-> "New"]

\* OrderResponse: the fields that have no default
OrderResponseRequired ==
    {"id", "guest_id", "original_order_id", "status", "total_amount",
     "room_or_table_number", "payment_url", "is_split", "order_items"}

\* the keyword arguments create_order and split_order build the response from
CreateResponseArgs ==
    {"id", "guest_id", "room_or_table_number", "total_amount", "status",
     "payment_url", "original_order_id", "created_at", "order_items"}

\* the keyword arguments update_order builds the response from
UpdateResponseArgs ==
    {"id", "guest_id", "status", "total_amount", "room_or_table_number",
     "payment_url", "notes", "order_items"}

\* building the response model: a missing required field raises a validation
\* error, which the handlers turn into an error response after the commit
ResponseOf(args) ==
    IF OrderResponseRequired \subseteq args THEN "Created" ELSE "InternalError"

\* after the commit of create_order and split_order: the response model is
\* built, then the two order-list keys are deleted; an exception of either
\* step is answered with status 500
AfterCommit(args, cacheUp, keys) ==
    IF ~(OrderResponseRequired \subseteq args)
    THEN [result |-> "InternalError", deleted |-> {}]
    ELSE IF ~cacheUp THEN [result |-> "InternalError", deleted |-> {}]
    ELSE [result |-> "Created", deleted |-> keys]

CreateOrder(cart) ==
    /\ nextId < MaxOrders
    /\ LET found == {cart[k].item_id : k \in DOMAIN cart} \cap ItemIds
           r == CreateLoop(items, cart, <<>>, 0)
           id == nextId + 1
       IN  IF cart = <<>>
           THEN /\ last' = Call("create_order", "EmptyOrder", FALSE, NoOrder, NoOrder, cart)
                /\ UNCHANGED orderVars
           ELSE IF found = {}
           THEN /\ last' = Call("create_order", "NoValidItems", FALSE, NoOrder, NoOrder, cart)
                /\ UNCHANGED orderVars
           ELSE IF r.err # "ok"
           THEN /\ last' = Call("create_order", r.err, FALSE, NoOrder, NoOrder, cart)
                /\ items' = Discarded(items, r.items)
                /\ UNCHANGED <<orders, nextId>>
           ELSE \E linkOk \in BOOLEAN, cacheUp \in BOOLEAN :
                LET f == AfterCommit(CreateResponseArgs, cacheUp,
                                     {CompanyOrdersKey("tenant"), GuestOrdersKey("guest")})
                IN  /\ items' = r.items
                    /\ orders' = [orders EXCEPT ![id] = NewOrderRow(id, r, linkOk)]
                    /\ nextId' = id
                    /\ last' = WithEnv(Call("create_order",
                                            IF linkOk THEN f.result ELSE "PaymentLinkError",
                                            TRUE, id, id, cart),
                                       linkOk, cacheUp,
                                       IF linkOk THEN f.deleted ELSE {})
    /\ UNCHANGED <<raceVars, billVars, stockVars, bookingVars, authVars, cacheVars>>

(***************************************************************************)
(* update_order                                                            *)
(***************************************************************************)
\* the appended order items, each at the item's current price
RECURSIVE AppendedLines(_, _)
AppendedLines(its, cart) ==
    IF cart = <<>> THEN <<>>
    ELSE <<OrderLine(Head(cart).item_id, Head(cart).quantity,
                     its[Head(cart).item_id].price)>>
         \o AppendedLines(its, Tail(cart))

\* select(Order).where(Order.id == order_id): the row, whoever asks
UpdateOrderFinds(row, user) == row.exists

UpdateOrderAs(user, o, cart) ==
    /\ cart # <<>>
    /\ Len(orders[o].lines) + Len(cart) <= MaxLines
    /\ LET missing == {cart[k].item_id : k \in DOMAIN cart} \ ItemIds IN
       IF ~UpdateOrderFinds(orders[o], user)
       THEN /\ last' = CallBy(user, "update_order", "NotFound", FALSE, o, NoOrder, cart)
            /\ UNCHANGED orderVars
       ELSE IF missing # {}
       THEN /\ last' = CallBy(user, "update_order", "ItemNotFound", FALSE, o, NoOrder, cart)
            /\ UNCHANGED orderVars
       ELSE \E cacheUp \in BOOLEAN :
            LET added == AppendedLines(items, cart) IN
            /\ orders' = [orders EXCEPT
                    ![o].lines = @ \o added,
                    ![o].total_amount = @ + LinesTotal(added)]
            \* the cache deletes follow the commit and are not guarded
            /\ last' = [CallBy(user, "update_order",
                             IF cacheUp THEN ResponseOf(UpdateResponseArgs)
                             ELSE "InternalError",
                             TRUE, o, NoOrder, cart)
                        EXCEPT !.cache_up = cacheUp,
                               !.deleted = IF cacheUp
                                           THEN {CompanyOrdersKey(user),
                                                 GuestOrdersKey(user)}
                                           ELSE {}]
            /\ UNCHANGED <<items, nextId>>
    /\ UNCHANGED <<raceVars, billVars, stockVars, bookingVars, authVars, cacheVars>>

UpdateOrder(o, cart) == \E caller \in OrderCallers : UpdateOrderAs(caller, o, cart)

(***************************************************************************)
(* split_order                                                             *)
(***************************************************************************)
\* index of the last order item of the item, 0 if there is none: the dict
\* comprehension {oi.item_id: oi} keeps the last line of each item
RECURSIVE LastIndexOf(_, _, _)
LastIndexOf(lines, i, k) ==
    IF k = 0 THEN 0
    ELSE IF lines[k].item_id = i THEN k
    ELSE LastIndexOf(lines, i, k - 1)

\* index of the first order item of the item, 0 if there is none: next(...)
RECURSIVE FirstIndexOf(_, _, _)
FirstIndexOf(lines, i, k) ==
    IF k > Len(lines) THEN 0
    ELSE IF lines[k].item_id = i THEN k
    ELSE FirstIndexOf(lines, i, k + 1)

\* the validation loop of split_order: every requested line is looked up in
\* the map of the original's lines and compared with that line's quantity as
\* loaded (the loop does not reduce it)
RECURSIVE SplitValidate(_, _, _, _, _)
SplitValidate(lines, request, new_lines, total, updates) ==
    IF request = <<>>
    THEN [err |-> "ok", lines |-> new_lines, total |-> total, updates |-> updates]
    ELSE LET d == Head(request)
             idx == LastIndexOf(lines, d.item_id, Len(lines))
         IN  IF idx = 0
             THEN [err |-> "ItemNotInOrder", lines |-> new_lines, total |-> total,
                   updates |-> updates]
             ELSE IF d.quantity <= 0
             THEN [err |-> "InvalidQuantity", lines |-> new_lines, total |-> total,
                   updates |-> updates]
             ELSE IF lines[idx].quantity < d.quantity
             THEN [err |-> "InsufficientQuantity", lines |-> new_lines, total |-> total,
                   updates |-> updates]
             ELSE LET item_amount == lines[idx].price * d.quantity IN
                  SplitValidate(lines, Tail(request),
                      Append(new_lines, OrderLine(d.item_id, d.quantity, lines[idx].price)),
                      total + item_amount,
                      Append(updates, [idx |-> idx, split_quantity |-> d.quantity,
                                       item_amount |-> item_amount]))

\* the original's total left as it was
OriginalTotalKept(total, u) == total

\* original_order.total_amount -= item_data["item_amount"]
OriginalTotalAfter(total, u) == total - u.item_amount

\* the lines that are not marked for deletion, in order
RECURSIVE KeepLines(_, _, _)
KeepLines(lines, deleted, k) ==
    IF k > Len(lines) THEN <<>>
    ELSE (IF k \in deleted THEN <<>> ELSE <<lines[k]>>) \o KeepLines(lines, deleted, k + 1)

\* the update loop of split_order over items_to_update
RECURSIVE ApplyUpdates(_, _, _, _)
ApplyUpdates(lines, total, updates, deleted) ==
    IF updates = <<>>
    THEN [lines |-> KeepLines(lines, deleted, 1), total |-> total]
    ELSE LET u == Head(updates)
             reduced == [lines EXCEPT ![u.idx].quantity = @ - u.split_quantity]
         IN  ApplyUpdates(reduced, OriginalTotalAfter(total, u), Tail(updates),
                          IF reduced[u.idx].quantity <= 0
                          THEN deleted \cup {u.idx} ELSE deleted)

\* the split's units are put back into stock
SplitStockReleased(its, lines) ==
    [i \in ItemIds |-> [its[i] EXCEPT !.quantity = @ + QtyOf(lines, i)]]

\* the Item rows after a split or its deletion: both handlers write Order and
\* OrderItem rows only
SplitStock(its, lines) == its

\* the amounts of the two payment links of split_order, requested after the
\* update loop: amount=split_order.total_amount and
\* amount=original_order.total_amount - (split_order.total_amount)
SplitLinkAmounts(original_total, split_total) ==
    [split |-> split_total, original |-> original_total - split_total]

\* .where(Order.id == order_id).where(Order.guest_id == current_user.id)
SplitOrderFinds(row, user) == row.exists /\ OrderGuest = user

SplitOrderAs(user, o, request) ==
    /\ nextId < MaxOrders
    /\ IF ~SplitOrderFinds(orders[o], user)
       THEN /\ last' = CallBy(user, "split_order", "NotFound", FALSE, o, NoOrder, request)
            /\ UNCHANGED orderVars
       ELSE LET v == SplitValidate(orders[o].lines, request, <<>>, 0, <<>>)
                a == ApplyUpdates(orders[o].lines, orders[o].total_amount, v.updates, {})
                id == nextId + 1
            IN  IF v.err # "ok"
                THEN /\ last' = CallBy(user, "split_order", v.err, FALSE, o, NoOrder, request)
                     /\ UNCHANGED orderVars
                ELSE \E linkOk \in BOOLEAN, cacheUp \in BOOLEAN :
                     LET written == [orders EXCEPT
                            ![id] = [exists |-> TRUE, total_amount |-> v.total,
                                     is_split |-> TRUE, original_order_id |-> o,
                                     payment_url |-> IF linkOk THEN "link" ELSE "none",
                                     lines |-> v.lines, status |-> "New"],
                            ![o].lines = a.lines,
                            ![o].total_amount = a.total,
                            ![o].payment_url = IF linkOk THEN "link" ELSE @]
                         f == AfterCommit(CreateResponseArgs, cacheUp,
                                  {CompanyOrdersKey("tenant"), GuestOrdersKey("guest")})
                     IN
                     IF ~linkOk
                     THEN \* the HTTPException of the payment link: db.rollback()
                          /\ orders' = RolledBack(orders, written)
                          /\ nextId' = IF orders' = orders THEN nextId ELSE id
                          /\ last' = WithEnv(CallBy(user, "split_order", "PaymentLinkError",
                                                  FALSE, o, NoOrder, request),
                                             FALSE, cacheUp, {})
                          /\ items' = SplitStock(items, v.lines)
                     ELSE
                     /\ orders' = written
                     /\ nextId' = id
                     /\ last' = [WithEnv(CallBy(user, "split_order", f.result, TRUE, o, id,
                                              request),
                                         TRUE, cacheUp, f.deleted)
                                 EXCEPT !.before = orders[o],
                                        !.amounts = SplitLinkAmounts(a.total, v.total)]
                     /\ items' = SplitStock(items, v.lines)
    /\ UNCHANGED <<raceVars, billVars, stockVars, bookingVars, authVars, cacheVars>>

SplitOrder(o, request) == SplitOrderAs(OrderGuest, o, request)

(***************************************************************************)
(* delete_split_order                                                      *)
(***************************************************************************)
\* the loop over the split order's items: merge into the first line of the
\* same item, or append the line
RECURSIVE MergeBack(_, _, _)
MergeBack(lines, total, split_lines) ==
    IF split_lines = <<>> THEN [lines |-> lines, total |-> total]
    ELSE LET s == Head(split_lines)
             idx == FirstIndexOf(lines, s.item_id, 1)
         IN  MergeBack(IF idx # 0
                       THEN [lines EXCEPT ![idx].quantity = @ + s.quantity]
                       ELSE Append(lines, OrderLine(s.item_id, s.quantity, s.price)),
                       total + s.price * s.quantity,
                       Tail(split_lines))

\* .where(Order.id == split_order_id).where(Order.guest_id == current_user.id)
\* .where(Order.is_split == True)
DeleteSplitFinds(row, user) == row.exists /\ row.is_split /\ OrderGuest = user

DeleteSplitOrderAs(user, s) ==
    /\ IF ~DeleteSplitFinds(orders[s], user)
       THEN /\ last' = CallBy(user, "delete_split_order", "NotFound", FALSE, s, NoOrder, <<>>)
            /\ UNCHANGED orderVars
       ELSE IF orders[s].original_order_id = NoOrder
       THEN /\ last' = CallBy(user, "delete_split_order", "NotASplitOrder", FALSE, s, NoOrder, <<>>)
            /\ UNCHANGED orderVars
       ELSE LET o == orders[s].original_order_id IN
            IF ~orders[o].exists
            THEN \* original_order is None: the attribute access raises
                 /\ last' = CallBy(user, "delete_split_order", "InternalError", FALSE, s, o, <<>>)
                 /\ UNCHANGED orderVars
            ELSE \E linkOk \in BOOLEAN :
                 LET m == MergeBack(orders[o].lines, orders[o].total_amount,
                                    orders[s].lines)
                 IN
                 IF ~linkOk
                 THEN /\ orders' = RolledBack(orders,
                                        [orders EXCEPT ![o].lines = m.lines,
                                                       ![o].total_amount = m.total])
                      /\ last' = WithEnv(CallBy(user, "delete_split_order", "PaymentLinkError",
                                              FALSE, s, o, <<>>),
                                         FALSE, TRUE, {})
                      /\ items' = SplitStock(items, orders[s].lines)
                      /\ UNCHANGED nextId
                 ELSE
                     /\ orders' = [orders EXCEPT
                            ![o].lines = m.lines,
                            ![o].total_amount = m.total,
                            ![o].payment_url = "link",
                            ![s] = Absent]
                     /\ last' = WithEnv(CallBy(user, "delete_split_order", "Deleted", TRUE, s, o,
                                             <<>>),
                                        TRUE, TRUE, {})
                     /\ items' = SplitStock(items, orders[s].lines)
                     /\ UNCHANGED nextId
    /\ UNCHANGED <<raceVars, billVars, stockVars, bookingVars, authVars, cacheVars>>

DeleteSplitOrder(s) == DeleteSplitOrderAs(OrderGuest, s)

(***************************************************************************)
(* Specification of the order operations, one call at a time.              *)
(***************************************************************************)
\* the items table as found: any stock level, the price of each item
ItemTables ==
    {[i \in ItemIds |-> [quantity |-> q[i], price |-> ItemPrice(i)]] :
        q \in [ItemIds -> 0..MaxStock]}

RaceIdle == pc = <<>> /\ snap = <<>> /\ req = <<>> /\ stock0 = <<>> /\ lock = 0
BillIdle == splits = <<>> /\ billTotal = 0
StockIdle == item_stocks = <<>>
AuthIdle == password_resets = <<>> /\ password = "" /\ now = 0
CacheIdle == rooms = 0 /\ cache = <<>>
BookingIdle == bookings = <<>> /\ bpc = <<>> /\ breq = <<>>

Init ==
    /\ items \in ItemTables
    /\ orders = [o \in OrderIds |-> Absent]
    /\ nextId = 0
    /\ last = NoCall
    /\ RaceIdle
    /\ BillIdle
    /\ StockIdle
    /\ AuthIdle
    /\ CacheIdle
    /\ BookingIdle

Next ==
    \/ \E cart \in Carts : CreateOrder(cart)
    \/ \E o \in OrderIds, cart \in Carts : UpdateOrder(o, cart)
    \/ \E o \in OrderIds, request \in SplitRequests : SplitOrder(o, request)
    \/ \E s \in OrderIds : DeleteSplitOrder(s)

Spec == Init /\ [][Next]_vars

(***************************************************************************)
(* Properties of the order operations.                                     *)
(***************************************************************************)
\* a committed call of the operation has just been taken
Committed(op) == last'.op = op /\ last'.committed /\ last' # last

\* C2: every order's total_amount is the sum over its order items of
\* price x quantity, after any sequence of create_order, update_order,
\* split_order and delete_split_order.
C2_TotalIsSumOfLines ==
    \A o \in OrderIds :
        orders[o].exists => orders[o].total_amount = LinesTotal(orders[o].lines)

\* C3: a committed create_order lowers each item's quantity by exactly the
\* quantities the cart requests for it, touches no other item, never commits
\* when the combined quantity of an item exceeds its stock, and stores every
\* cart line as an order item of its own.
C3_CreateReservesExactly ==
    [][Committed("create_order") /\ nextId' = nextId + 1 =>
        LET cart == last'.cart
            new == orders'[last'.new]
        IN  /\ \A i \in ItemIds :
                /\ items'[i].quantity = items[i].quantity - QtyOf(cart, i)
                /\ QtyOf(cart, i) <= items[i].quantity
                /\ items'[i].price = items[i].price
            /\ Len(new.lines) = Len(cart)
            /\ \A k \in DOMAIN cart :
                /\ new.lines[k].item_id = cart[k].item_id
                /\ new.lines[k].quantity = cart[k].quantity]_vars

\* a cart naming the same item twice was committed as two lines
C3_Witness ==
    /\ last.op = "create_order"
    /\ last.committed
    /\ Len(last.cart) = 2
    /\ last.cart[1].item_id = last.cart[2].item_id
    /\ Len(orders[last.new].lines) = 2
    /\ items[last.cart[1].item_id].quantity = 0

\* C4: after a committed split_order the split order's total plus the
\* original's new total is the original's total before the split.
C4_SplitConservesTotal ==
    [][Committed("split_order") /\ nextId' = nextId + 1 =>
        orders'[last'.new].total_amount + orders'[last'.order].total_amount
            = orders[last'.order].total_amount]_vars

\* a split that moved a line of positive value has been committed
C4_Witness ==
    /\ last.op = "split_order"
    /\ last.committed
    /\ orders[last.new].exists
    /\ orders[last.new].total_amount > 0
    /\ orders[last.order].exists

\* C5: a committed split_order moves quantities without creating any: for
\* every item the original's remaining quantity plus the split order's
\* quantity is the original's quantity before, and no order item with a
\* quantity <= 0 remains.
C5_SplitConservesQuantities ==
    [][Committed("split_order") /\ nextId' = nextId + 1 =>
        LET o == last'.order
            n == last'.new
        IN  /\ \A i \in ItemIds :
                QtyOf(orders'[o].lines, i) + QtyOf(orders'[n].lines, i)
                    = QtyOf(orders[o].lines, i)
            /\ \A x \in {o, n} : \A k \in DOMAIN orders'[x].lines :
                orders'[x].lines[k].quantity > 0]_vars

(***************************************************************************)
(* Concurrent create_order calls.  Each call runs in a session of its own: *)
(* the SELECT of the items (no FOR UPDATE) loads the rows into the         *)
(* session, the validation loop works on the loaded rows, and db.commit()  *)
(* flushes "UPDATE items SET quantity = <value computed in the session>"   *)
(* together with the INSERT of the order.                                  *)
(***************************************************************************)
RaceSessions == 2
Sessions == 1..RaceSessions

\* the cart of a session: one unit of one item
UnitCart(i) == <<[item_id |-> i, quantity |-> 1]>>

\* result = await db.execute(select(Item).where(Item.id.in_(item_ids)))
RaceLoad(p) ==
    /\ pc[p] = "start"
    /\ snap' = [snap EXCEPT ![p] = items]
    /\ pc' = [pc EXCEPT ![p] = "loaded"]
    /\ UNCHANGED <<orderVars, last, req, stock0, lock, billVars, stockVars, bookingVars, authVars, cacheVars>>

\* the rows the flush of a session writes: the quantity of every item the
\* session changed, as computed from the rows it loaded
FlushItems(db, loaded, changed) ==
    [i \in ItemIds |->
        IF changed[i].quantity # loaded[i].quantity
        THEN [db[i] EXCEPT !.quantity = changed[i].quantity]
        ELSE db[i]]

\* the validation loop and db.commit()
RaceCommit(p) ==
    /\ pc[p] = "loaded"
    /\ LET r == CreateLoop(snap[p], req[p], <<>>, 0)
           id == nextId + 1
       IN  IF r.err # "ok"
           THEN /\ pc' = [pc EXCEPT ![p] = r.err]
                /\ UNCHANGED orderVars
           ELSE /\ items' = FlushItems(items, snap[p], r.items)
                /\ \E linkOk \in BOOLEAN :
                        orders' = [orders EXCEPT ![id] = NewOrderRow(id, r, linkOk)]
                /\ nextId' = id
                /\ pc' = [pc EXCEPT ![p] = "committed"]
    /\ UNCHANGED <<last, snap, req, stock0, lock, billVars, stockVars, bookingVars, authVars, cacheVars>>

InitRace ==
    /\ items \in ItemTables
    /\ stock0 = items
    /\ lock = 0
    /\ orders = [o \in OrderIds |-> Absent]
    /\ nextId = 0
    /\ last = NoCall
    /\ pc = [p \in Sessions |-> "start"]
    /\ snap = [p \in Sessions |-> items]
    /\ req \in [Sessions -> {UnitCart(i) : i \in ItemIds}]
    /\ BillIdle
    /\ StockIdle
    /\ AuthIdle
    /\ CacheIdle
    /\ BookingIdle

NextRace == \E p \in Sessions : RaceLoad(p) \/ RaceCommit(p)

SpecRace == InitRace /\ [][NextRace]_vars

RaceDone == \A p \in Sessions : pc[p] \notin {"start", "loaded"}

\* C1: when all of N concurrent create_order calls ask for one unit of the
\* same item with stock Q < N, exactly Q of them commit, the others fail
\* with insufficient stock, the item ends at quantity 0, and no quantity is
\* ever negative.
C1_NoOversell ==
    /\ \A i \in ItemIds : items[i].quantity >= 0
    /\ \A i \in ItemIds :
        (/\ RaceDone
         /\ \A p \in Sessions : req[p] = UnitCart(i)
         /\ stock0[i].quantity < RaceSessions)
        => /\ Cardinality({p \in Sessions : pc[p] = "committed"}) = stock0[i].quantity
           /\ \A p \in Sessions : pc[p] \in {"committed", "InsufficientStock"}
           /\ items[i].quantity = 0

(***************************************************************************)
(* Bill split.  order_service.split_bill is called by the router           *)
(* (app/routes/order_router.py) and its response is declared               *)
(* (BillSplitResponse), but the function itself is not part of             *)
(* order_service.py; it is modelled from section 4.4 of the specification. *)
(* Allocated amounts are kept in hundredths of a currency unit, so that a  *)
(* percentage of a whole total is exact.                                   *)
(***************************************************************************)
MaxBill == 4
MaxSplits == 2

Percents == {0, 25, 50, 75, 100}

BillRequestLines ==
    [split_type : {"amount"}, value : 0..MaxBill]
        \cup [split_type : {"percent"}, value : Percents]
BillRequests == UNION {[1..n -> BillRequestLines] : n \in 1..MaxSplits}

\* a percentage share rounded down to whole currency units
AllocatedRounded(total, r) ==
    IF r.split_type = "amount" THEN 100 * r.value
    ELSE 100 * ((total * r.value) \div 100)

\* allocated = value for type amount, total_amount x value / 100 for percent
Allocated100(total, r) ==
    IF r.split_type = "amount" THEN 100 * r.value ELSE total * r.value

RECURSIVE SumAllocated(_, _)
SumAllocated(total, requests) ==
    IF requests = <<>> THEN 0
    ELSE Allocated100(total, Head(requests)) + SumAllocated(total, Tail(requests))

SplitBill(requests) ==
    /\ splits = <<>>
    /\ IF SumAllocated(billTotal, requests) # 100 * billTotal
       THEN /\ last' = Call("split_bill", "SplitMismatch", FALSE, NoOrder, NoOrder, requests)
            /\ UNCHANGED splits
       ELSE \E linkOk \in BOOLEAN :
            /\ splits' = [k \in DOMAIN requests |->
                    [split_type |-> requests[k].split_type,
                     requested_value |-> requests[k].value,
                     allocated |-> Allocated100(billTotal, requests[k]),
                     payment_url |-> IF linkOk THEN "link" ELSE "none"]]
            /\ last' = Call("split_bill", "Created", TRUE, NoOrder, NoOrder, requests)
    /\ UNCHANGED <<orderVars, raceVars, billTotal, stockVars, bookingVars, authVars, cacheVars>>

InitBill ==
    /\ items = [i \in ItemIds |-> [quantity |-> 0, price |-> ItemPrice(i)]]
    /\ orders = [o \in OrderIds |-> Absent]
    /\ nextId = 0
    /\ last = NoCall
    /\ RaceIdle
    /\ splits = <<>>
    /\ billTotal \in 0..MaxBill
    /\ StockIdle
    /\ AuthIdle
    /\ CacheIdle
    /\ BookingIdle

NextBill == \E requests \in BillRequests : SplitBill(requests)

SpecBill == InitBill /\ [][NextBill]_vars

\* sum of the persisted allocated amounts
RECURSIVE PersistedSum(_)
PersistedSum(rows) ==
    IF rows = <<>> THEN 0 ELSE Head(rows).allocated + PersistedSum(Tail(rows))

\* C6: split_bill either persists one split per request, each allocated its
\* amount or its percentage of the total, with the allocated amounts adding
\* up to the order's total exactly, or answers SplitMismatch and persists
\* nothing.
C6_BillSplitExact ==
    [][last'.op = "split_bill" /\ last' # last =>
        LET requests == last'.cart IN
        \/ /\ last'.result = "Created"
           /\ Len(splits') = Len(requests)
           /\ \A k \in DOMAIN requests :
                /\ requests[k].split_type = "amount" =>
                        splits'[k].allocated = 100 * requests[k].value
                /\ requests[k].split_type = "percent" =>
                        splits'[k].allocated = billTotal * requests[k].value
           /\ PersistedSum(splits') = 100 * billTotal
        \/ /\ last'.result = "SplitMismatch"
           /\ splits' = splits
           /\ splits' = <<>>]_vars

\* an amount share and a percentage share that add up to the total were
\* persisted; the percentage share is not a whole amount
C6_Witness ==
    /\ last.op = "split_bill"
    /\ last.result = "Created"
    /\ Len(splits) = 2
    /\ splits[1].split_type = "percent"
    /\ splits[2].split_type = "percent"
    /\ splits[1].allocated = 150

(***************************************************************************)
(* Event bookings.  Dates are days 1..MaxDay, times of day 0..MaxTime;     *)
(* datetime.combine(date, time) orders instants by date, then time.        *)
(***************************************************************************)
MaxDay == 2
MaxTime == 2
NumRooms == 2
MaxBookings == 2

Days == 1..MaxDay
Times == 0..MaxTime
RoomIds == 1..NumRooms
BookingIds == 1..MaxBookings
\* None of an optional date, room or booking id; None of an optional time
NoDate == 0
NoRoom == 0
NoBooking == 0
NoTime == 0 - 1

\* datetime.combine(date, time)
DateTime(d, t) == d * (MaxTime + 1) + t

\* an EventBooking row
BookingRow(room, status, ad, at, ed, et) ==
    [exists |-> TRUE, company_id |-> 1, meeting_room_id |-> room, status |-> status,
     arrival_date |-> ad, arrival_time |-> at, end_date |-> ed, end_time |-> et]

AbsentBooking ==
    [exists |-> FALSE, company_id |-> 0, meeting_room_id |-> NoRoom, status |-> "CANCELLED",
     arrival_date |-> 1, arrival_time |-> 0, end_date |-> NoDate, end_time |-> 0]

\* the window a stored booking occupies: a row without end_date is a
\* same-day event
RowStart(b) == DateTime(b.arrival_date, b.arrival_time)
RowEnd(b) ==
    DateTime(IF b.end_date = NoDate THEN b.arrival_date ELSE b.end_date, b.end_time)

\* the rows the table may hold: the end instant is after the start instant
BookingRows ==
    {r \in {BookingRow(room, st, ad, at, ed, et) :
                room \in RoomIds, st \in {"PENDING", "CANCELLED"},
                ad \in Days, at \in Times, ed \in Days \cup {NoDate}, et \in Times} :
        RowEnd(r) > RowStart(r)}

(***************************************************************************)
(* is_room_available                                                       *)
(***************************************************************************)
\* "Same day overlap" of the query: times of day on the arrival date
SameDayClause(b, ad, at, et) ==
    /\ b.arrival_date = ad
    /\ b.arrival_time < et
    /\ b.end_time > at

\* "Multi-day overlap" of the query; a comparison with a NULL end_date is
\* NULL in SQL, which makes the whole clause not true
MultiDayClause(b, ad, ed) ==
    /\ b.end_date # NoDate
    /\ b.arrival_date >= ad /\ b.arrival_date <= ed
    /\ \/ b.end_date >= ad /\ b.end_date <= ed
       \/ b.arrival_date <= ad /\ b.end_date >= ed

\* the rows the query returns
ExistingBookings(tbl, room_id, ad, at, et, ed, exclude) ==
    {id \in BookingIds :
        /\ tbl[id].exists
        /\ tbl[id].meeting_room_id = room_id
        /\ tbl[id].status # "CANCELLED"
        /\ SameDayClause(tbl[id], ad, at, et) \/ MultiDayClause(tbl[id], ad, ed)
        /\ exclude = NoBooking \/ id # exclude}

\* the overlap test of the loop over the returned rows
LoopOverlap(b, arrival_dt, end_dt) ==
    LET booking_start == DateTime(b.arrival_date, b.arrival_time)
        booking_end == DateTime(b.end_date, b.end_time)
    IN  \/ arrival_dt <= booking_end /\ end_dt >= booking_start
        \/ booking_start <= end_dt /\ booking_end >= arrival_dt

\* the outcomes of is_room_available: "true", "false", "InvalidWindow" (the
\* HTTPException of the window check) or "TypeError" (datetime.combine on a
\* returned row whose end_date is None).  The query has no ORDER BY, so when
\* a returned row overlaps and another has no end_date, either one may be
\* met first.
IsRoomAvailable(tbl, room_id, ad, at, et, end_date, exclude) ==
    LET ed == IF end_date = NoDate THEN ad ELSE end_date
        arrival_dt == DateTime(ad, at)
        end_dt == DateTime(ed, et)
        rows == ExistingBookings(tbl, room_id, ad, at, et, ed, exclude)
        noEnd == {id \in rows : tbl[id].end_date = NoDate}
        hits == {id \in rows \ noEnd : LoopOverlap(tbl[id], arrival_dt, end_dt)}
    IN  IF end_dt <= arrival_dt THEN {"InvalidWindow"}
        ELSE IF noEnd = {} THEN (IF hits = {} THEN {"true"} ELSE {"false"})
        ELSE {"TypeError"} \cup (IF hits = {} THEN {} ELSE {"false"})

\* the arguments of one evaluation
AvailArgs ==
    [room_id : RoomIds, arrival_date : Days, arrival_time : Times,
     end_date : Days \cup {NoDate}, end_time : Times,
     exclude_booking_id : BookingIds \cup {NoBooking}]

OutcomesOf(tbl, a) ==
    IsRoomAvailable(tbl, a.room_id, a.arrival_date, a.arrival_time, a.end_time,
                    a.end_date, a.exclude_booking_id)

CheckRoom(a) ==
    /\ \E r \in OutcomesOf(bookings, a) :
            last' = Call("is_room_available", r, FALSE, NoOrder, NoOrder, a)
    /\ UNCHANGED <<orderVars, raceVars, billVars, stockVars, bookingVars, authVars, cacheVars>>

(***************************************************************************)
(* The request schemas and the columns of the EventBooking model.  Reading *)
(* an attribute a pydantic model does not declare raises AttributeError;   *)
(* a keyword the mapped class has no attribute for makes its constructor   *)
(* raise TypeError.                                                        *)
(***************************************************************************)
EventBookingBaseFields ==
    {"arrival_date", "arrival_time", "end_date", "end_time", "event_type",
     "event_theme", "number_of_guests", "event_duration", "requires_catering",
     "requires_decoration", "requires_equipment", "equipment_needed",
     "special_requests", "notes", "catering_size"}

EventBookingCreateFields ==
    EventBookingBaseFields \cup
    {"selected_menu_items", "room_name", "selected_arrangement", "guest_name",
     "guest_email", "guest_phone", "deposit_amount"}

EventBookingUpdateFields ==
    {"arrival_date", "arrival_time", "event_type", "event_theme",
     "number_of_guests", "event_duration", "requires_catering",
     "requires_decoration", "requires_equipment", "equipment_needed",
     "special_requests", "notes", "status", "menu_item_ids"}

EventBookingColumns ==
    {"id", "guest_id", "company_id", "meeting_room_id", "seat_arrangement_id",
     "name", "staff_name", "notes", "special_requests", "seating_arrangement",
     "location", "number_of_guest", "event_duration", "contact_person_name",
     "contact_person_phone", "contact_person_email", "requires_catering",
     "requires_decoration", "requires_equipment", "is_confirmed",
     "catering_size", "equipment_needed", "total_amount", "deposit_amount",
     "balance", "payment_status", "payment_url", "status", "arrival_date",
     "arrival_time", "setup_time", "end_time", "end_date", "meeting_room",
     "seat_arrangement", "menu_items", "payment", "created_at", "updated_at"}

\* the keywords create_event_booking passes to EventBooking(...)
EventBookingKwargs ==
    {"guest_id", "company_id", "staff_name", "guest_name", "guest_email",
     "guest_phone", "meeting_room_id", "seat_arrangement_id", "total_amount"}
    \cup (EventBookingCreateFields \
            {"guest_name", "guest_email", "guest_phone", "selected_menu_items",
             "selected_room", "selected_arrangement"})

\* every attribute reads as though the schema declared it
HasFieldUndeclared(fields, name) == TRUE

\* booking_data.<name> can be read
HasField(fields, name) == name \in fields

\* the users that call the booking operations; bookings belong to company 1
Callers == 1..2

\* a room id no meeting room has
UnknownRoom == NumRooms + 1

(***************************************************************************)
(* create_event_booking                                                    *)
(***************************************************************************)
\* the declared fields of a request the model follows; an attribute the
\* request does not carry is None wherever it can be read at all
CreateRequests ==
    [room_name : RoomIds \cup {NoRoom, UnknownRoom},
     arrival_date : Days, arrival_time : Times,
     end_date : Days \cup {NoDate}, end_time : Times]

\* the validation of the selections and of the room's availability: the
\* error raised, or "checked" when the handler goes on to build the row
CreateChecks(tbl, r) ==
    IF ~HasField(EventBookingCreateFields, "selected_room") THEN {"AttributeError"}
    ELSE IF r.room_name = NoRoom THEN {"checked"}
    ELSE IF r.room_name \notin RoomIds THEN {"RoomNotFound"}
    ELSE {IF c = "true" THEN "checked"
          ELSE IF c = "false" THEN "RoomUnavailable" ELSE c :
            c \in IsRoomAvailable(tbl, r.room_name, r.arrival_date, r.arrival_time,
                                  r.end_time, r.end_date, NoBooking)}

\* EventBooking(...), db.add, commit: the table after it, or the table
\* unchanged when the constructor raises
CreateInsert(tbl, r) ==
    IF ~(EventBookingKwargs \subseteq EventBookingColumns) THEN tbl
    ELSE LET id == CHOOSE k \in BookingIds :
                        ~tbl[k].exists /\ \A j \in 1..(k - 1) : tbl[j].exists
         IN  [tbl EXCEPT ![id] =
                BookingRow(NoRoom, "PENDING", r.arrival_date,
                           r.arrival_time, r.end_date, r.end_time)]

\* the response of a handler that has committed: EventBookingResponse does
\* not set from_attributes, so model_validate of the row raises
BookingResponse == "ValidationError"

CreateEventBooking(r) ==
    /\ \E c \in CreateChecks(bookings, r) :
        IF c # "checked"
        THEN /\ last' = Call("create_event_booking", c, FALSE, NoBooking, NoOrder, <<>>)
             /\ bookings' = bookings
        ELSE /\ \E k \in BookingIds : ~bookings[k].exists
             /\ bookings' = CreateInsert(bookings, r)
             /\ last' = IF bookings' = bookings
                        THEN Call("create_event_booking", "TypeError", FALSE,
                                  NoBooking, NoOrder, <<>>)
                        ELSE [Call("create_event_booking", BookingResponse, TRUE,
                                   NoBooking, NoOrder, <<>>)
                              EXCEPT !.deleted = {<<"bookings:company", 1>>}]
    /\ UNCHANGED <<orderVars, raceVars, billVars, stockVars, bpc, breq, authVars, cacheVars>>

(***************************************************************************)
(* update_event_booking                                                    *)
(***************************************************************************)
\* the fields of an update the model follows; "" is a status left unset
UpdateRequests ==
    [status : {"", "PENDING", "CANCELLED"}, arrival_date : Days \cup {NoDate},
     arrival_time : Times \cup {NoTime}]

\* the booking after "for field, value in update_data.items(): setattr"
UpdatedRow(b, u) ==
    [b EXCEPT !.status = IF u.status = "" THEN @ ELSE u.status,
              !.arrival_date = IF u.arrival_date = NoDate THEN @ ELSE u.arrival_date,
              !.arrival_time = IF u.arrival_time = NoTime THEN @ ELSE u.arrival_time]

\* the outcomes of the handler once the booking is found
UpdateChecks(tbl, id, u) ==
    LET b == tbl[id]
        room_id == b.meeting_room_id
    IN  IF ~HasField(EventBookingUpdateFields, "room_name") THEN {"AttributeError"}
        ELSE IF u.arrival_date = NoDate /\ u.arrival_time = NoTime
        THEN {"checked"}
        ELSE {IF c = "true" THEN "checked"
              ELSE IF c = "false" THEN "RoomUnavailable" ELSE c :
                c \in IsRoomAvailable(tbl, room_id,
                        IF u.arrival_date = NoDate THEN b.arrival_date ELSE u.arrival_date,
                        IF u.arrival_time = NoTime THEN b.arrival_time ELSE u.arrival_time,
                        b.end_time, b.end_date, id)}

UpdateEventBooking(id, caller, u) ==
    /\ IF ~(bookings[id].exists /\ bookings[id].company_id = caller)
       THEN /\ last' = Call("update_event_booking", "NotFound", FALSE, id, NoOrder, <<>>)
            /\ bookings' = bookings
       ELSE \E c \in UpdateChecks(bookings, id, u) :
            IF c # "checked"
            THEN /\ last' = Call("update_event_booking", c, FALSE, id, NoOrder, <<>>)
                 /\ bookings' = bookings
            ELSE /\ bookings' = [bookings EXCEPT ![id] = UpdatedRow(@, u)]
                 /\ last' = [Call("update_event_booking", BookingResponse, TRUE,
                                  id, NoOrder, <<>>)
                             EXCEPT !.deleted = {<<"bookings", bookings[id].company_id>>}]
    /\ UNCHANGED <<orderVars, raceVars, billVars, stockVars, bpc, breq, authVars, cacheVars>>

(***************************************************************************)
(* cancel_event_booking                                                    *)
(***************************************************************************)
\* the cache key the booking handlers delete after their commit
BookingsKey(company_id) == <<"bookings", company_id>>

\* the cache key get_bookings reads and writes for a user (first page, no
\* status filter)
BookingListKey(user_id) == <<"bookings:user", user_id>>

CancelEventBooking(id, caller) ==
    /\ IF ~(bookings[id].exists /\ bookings[id].company_id = caller)
       THEN /\ last' = Call("cancel_event_booking", "NotFound", FALSE, id, NoOrder, <<>>)
            /\ bookings' = bookings
       ELSE IF bookings[id].status = "CANCELLED"
       THEN /\ last' = Call("cancel_event_booking", "AlreadyCancelled", FALSE,
                            id, NoOrder, <<>>)
            /\ bookings' = bookings
       ELSE /\ bookings' = [bookings EXCEPT ![id].status = "CANCELLED"]
            /\ last' = [Call("cancel_event_booking", BookingResponse, TRUE,
                             id, NoOrder, <<>>)
                        EXCEPT !.deleted = {BookingsKey(bookings[id].company_id)}]
    /\ UNCHANGED <<orderVars, raceVars, billVars, stockVars, bpc, breq, authVars, cacheVars>>

(***************************************************************************)
(* The booking operations over the event_bookings table as the service     *)
(* finds it.                                                               *)
(***************************************************************************)
\* the windows of two rows overlap as half-open intervals
RowsOverlap(a, b) == RowStart(a) < RowEnd(b) /\ RowStart(b) < RowEnd(a)

\* no two non-cancelled bookings of one room overlap
NoOverlap(tbl) ==
    \A i, j \in BookingIds :
        (/\ i # j
         /\ tbl[i].exists /\ tbl[j].exists
         /\ tbl[i].meeting_room_id = tbl[j].meeting_room_id
         /\ tbl[i].status # "CANCELLED" /\ tbl[j].status # "CANCELLED")
        => ~RowsOverlap(tbl[i], tbl[j])

BookingTables == [BookingIds -> BookingRows \cup {AbsentBooking}]

OrdersIdle ==
    /\ items = [i \in ItemIds |-> [quantity |-> 0, price |-> ItemPrice(i)]]
    /\ orders = [o \in OrderIds |-> Absent]
    /\ nextId = 0
    /\ last = NoCall

InitBooking ==
    /\ OrdersIdle
    /\ RaceIdle
    /\ BillIdle
    /\ StockIdle
    /\ AuthIdle
    /\ CacheIdle
    /\ bookings \in {t \in BookingTables : NoOverlap(t)}
    /\ bpc = <<>>
    /\ breq = <<>>

NextBooking ==
    \/ \E r \in CreateRequests : CreateEventBooking(r)
    \/ \E id \in BookingIds, caller \in Callers, u \in UpdateRequests :
            UpdateEventBooking(id, caller, u)
    \/ \E id \in BookingIds, caller \in Callers : CancelEventBooking(id, caller)

SpecBooking == InitBooking /\ [][NextBooking]_vars

InitAvail ==
    /\ OrdersIdle
    /\ RaceIdle
    /\ BillIdle
    /\ StockIdle
    /\ AuthIdle
    /\ CacheIdle
    /\ bookings \in BookingTables
    /\ bpc = <<>>
    /\ breq = <<>>

NextAvail ==
    \E a \in AvailArgs :
        /\ last = NoCall
        /\ a.room_id = 1
        /\ a.exclude_booking_id \in {NoBooking, 1}
        /\ CheckRoom(a)

SpecAvail == InitAvail /\ [][NextAvail]_vars

ReqStart(a) == DateTime(a.arrival_date, a.arrival_time)
ReqEnd(a) ==
    DateTime(IF a.end_date = NoDate THEN a.arrival_date ELSE a.end_date, a.end_time)

\* some non-cancelled booking of the room, other than the excluded one,
\* overlaps the requested window as a half-open interval
Busy(tbl, a) ==
    \E id \in BookingIds :
        /\ tbl[id].exists
        /\ tbl[id].meeting_room_id = a.room_id
        /\ tbl[id].status # "CANCELLED"
        /\ id # a.exclude_booking_id
        /\ ReqStart(a) < RowEnd(tbl[id])
        /\ RowStart(tbl[id]) < ReqEnd(a)

Evaluated == last.op = "is_room_available" /\ ReqEnd(last.cart) > ReqStart(last.cart)

\* C8: is_room_available returns false whenever some non-cancelled booking
\* of the room, other than exclude_booking_id, overlaps the requested
\* window (a_start < b_end and b_start < a_end), the same for same-day and
\* multi-day windows.
C8_BusyNeverFree == (Evaluated /\ Busy(bookings, last.cart)) => last.result = "false"

\* C9: is_room_available returns true whenever no non-cancelled booking of
\* the room other than exclude_booking_id overlaps the requested window;
\* touching endpoints, cancelled bookings and the excluded booking do not
\* make the room unavailable.
C9_FreeNeverBusy == (Evaluated /\ ~Busy(bookings, last.cart)) => last.result = "true"

(***************************************************************************)
(* Two create_event_booking requests in flight at once.  A session is at   *)
(* "start" before its selections and the room's availability are checked,  *)
(* at "checked" between the availability query and its own insert.         *)
(***************************************************************************)
RaceBookRequests ==
    {r \in CreateRequests :
        /\ r.room_name \in RoomIds
        /\ r.end_date # NoDate
        /\ DateTime(r.end_date, r.end_time) > DateTime(r.arrival_date, r.arrival_time)}

BookStep(p) ==
    /\ bpc[p] \in {"start", "checked"}
    /\ IF bpc[p] = "start"
       THEN /\ \E c \in CreateChecks(bookings, breq[p]) :
                    bpc' = [bpc EXCEPT ![p] = c]
            /\ bookings' = bookings
       ELSE /\ \E k \in BookingIds : ~bookings[k].exists
            /\ bookings' = CreateInsert(bookings, breq[p])
            /\ bpc' = [bpc EXCEPT ![p] =
                          IF bookings' = bookings THEN "TypeError" ELSE "committed"]
    /\ UNCHANGED <<orderVars, last, raceVars, billVars, stockVars, breq, authVars, cacheVars>>

InitBookRace ==
    /\ OrdersIdle
    /\ RaceIdle
    /\ BillIdle
    /\ StockIdle
    /\ AuthIdle
    /\ CacheIdle
    /\ bookings = [id \in BookingIds |-> AbsentBooking]
    /\ bpc = [p \in Sessions |-> "start"]
    /\ breq \in [Sessions -> RaceBookRequests]

NextBookRace == \E p \in Sessions : BookStep(p)

SpecBookRace == InitBookRace /\ [][NextBookRace]_vars

\* the two requests name the same room and their windows overlap
Contend(r, q) ==
    /\ r.room_name = q.room_name
    /\ DateTime(r.arrival_date, r.arrival_time) < DateTime(q.end_date, q.end_time)
    /\ DateTime(q.arrival_date, q.arrival_time) < DateTime(r.end_date, r.end_time)

\* C10: of two concurrent booking requests for the same room with
\* overlapping windows, once both are answered one has committed and the
\* other has been rejected as room unavailable; they never both commit.
C10_OneBookingWins ==
    \A p, q \in Sessions :
        (/\ p # q
         /\ Contend(breq[p], breq[q])
         /\ bpc[p] \notin {"start", "checked"}
         /\ bpc[q] \notin {"start", "checked"})
        => \/ bpc[p] = "committed" /\ bpc[q] = "RoomUnavailable"
           \/ bpc[q] = "committed" /\ bpc[p] = "RoomUnavailable"

(***************************************************************************)
(* Failure handling and frame conditions of the order operations.          *)
(***************************************************************************)
\* C11: a create_order call that fails because the cart is empty, an item id
\* does not exist or a line asks for more than the stock (also after earlier
\* lines of the cart passed the check) leaves every Item.quantity unchanged
\* and persists no order and no order item.
C11_CreateAllOrNothing ==
    [][(/\ last'.op = "create_order"
        /\ last'.result \in {"EmptyOrder", "NoValidItems", "ItemNotFound",
                             "InsufficientStock"})
       => (items' = items /\ orders' = orders /\ nextId' = nextId)]_vars

\* a two-line cart was rejected at its second line after the first passed
C11_Witness ==
    /\ last.op = "create_order"
    /\ last.result = "InsufficientStock"
    /\ Len(last.cart) = 2
    /\ last.cart[1].item_id \in ItemIds
    /\ items[last.cart[1].item_id].quantity >= last.cart[1].quantity

\* what is wrong with one requested line of a split, by the lines of the
\* original order: the item is on no line, the quantity is not positive, or
\* the quantity exceeds that of every line of the item
Offence(lines, d) ==
    IF \A k \in DOMAIN lines : lines[k].item_id # d.item_id THEN "ItemNotInOrder"
    ELSE IF d.quantity <= 0 THEN "InvalidQuantity"
    ELSE IF \A k \in DOMAIN lines :
                lines[k].item_id = d.item_id => lines[k].quantity < d.quantity
    THEN "InsufficientQuantity"
    ELSE "none"

SplitErrors == {"ItemNotInOrder", "InvalidQuantity", "InsufficientQuantity"}

\* C12: split_order fails with ItemNotInOrder, InvalidQuantity or
\* InsufficientQuantity when a requested line names an item that is on no
\* line of the original, a quantity <= 0, or more than the line holds; a call
\* that fails before its commit leaves the original's lines and total as
\* they were and creates no split order.
C12_SplitRejectsAndRollsBack ==
    [][(last'.op = "split_order" /\ orders[last'.order].exists)
       => LET request == last'.cart
              lines == orders[last'.order].lines
          IN  /\ (request # <<>> /\ Offence(lines, request[1]) # "none")
                    => last'.result = Offence(lines, request[1])
              /\ (\E k \in DOMAIN request : Offence(lines, request[k]) # "none")
                    => last'.result \in SplitErrors
              /\ last'.result \in SplitErrors \cup {"PaymentLinkError"}
                    => (orders' = orders /\ items' = items /\ nextId' = nextId)]_vars

\* a split was rejected at its second line, or after its writes were flushed
C12_Witness ==
    /\ last.op = "split_order"
    /\ \/ last.result = "InsufficientQuantity" /\ Len(last.cart) = 2
       \/ last.link = "failed" /\ last.cart # <<>>

\* C13: when the payment link cannot be obtained during create_order, the
\* order stays committed with an empty payment reference and the caller is
\* answered with the created order.
C13_CreateLinkFailureIsDegradedSuccess ==
    (last.op = "create_order" /\ last.link = "failed")
    => /\ last.committed
       /\ orders[last.new].exists
       /\ orders[last.new].payment_url = "none"
       /\ last.result = "Created"

\* C14: when the payment link cannot be obtained during split_order, the
\* split order and the rebalanced original are still persisted, the payment
\* reference left empty.
C14_SplitLinkFailureKeepsSplit ==
    (last.op = "split_order" /\ last.link = "failed")
    => /\ last.committed
       /\ orders[last.new].exists
       /\ orders[last.new].is_split
       /\ orders[last.new].payment_url = "none"

\* C15: when the cache cannot be reached at the end of a create_order or
\* split_order that committed, the call still answers with the created order.
C15_CacheFailureNotFatal ==
    (/\ last.op \in {"create_order", "split_order"}
     /\ last.committed
     /\ last.link = "ok"
     /\ ~last.cache_up)
    => last.result = "Created"

\* the keys holding the views a committed call changed
ViewKeys(op) ==
    IF op \in {"create_order", "update_order", "split_order", "delete_split_order",
               "update_order_status"}
    THEN {CompanyOrdersKey("tenant"), GuestOrdersKey("guest")}
    ELSE IF op \in {"create_event_booking", "update_event_booking",
                    "cancel_event_booking"}
    THEN {BookingListKey(1)}
    ELSE {}

\* C16: every mutating operation that committed, the cache being reachable,
\* has deleted the order-list keys of the affected tenant and guest, or the
\* booking-list key get_bookings reads.
C16_CommittedCallInvalidatesViews ==
    (last.committed /\ last.cache_up) => ViewKeys(last.op) \subseteq last.deleted

\* the two sequences hold the same order items, whatever their order
SameLines(a, b) ==
    \A r \in {a[k] : k \in DOMAIN a} \cup {b[k] : k \in DOMAIN b} :
        Cardinality({k \in DOMAIN a : a[k] = r})
            = Cardinality({k \in DOMAIN b : b[k] = r})

\* C17: deleting a split order right after the split that made it restores
\* the original order's lines (item, quantity, price) and total_amount to
\* what they were before the split, and the split order is gone.
C17_DeleteReversesSplit ==
    [][(/\ last.op = "split_order" /\ last.committed
        /\ last'.op = "delete_split_order" /\ last'.committed
        /\ last'.order = last.new)
       => /\ SameLines(orders'[last.order].lines, last.before.lines)
          /\ orders'[last.order].total_amount = last.before.total_amount
          /\ ~orders'[last.new].exists]_vars

\* C18: split_order and delete_split_order leave every Item.quantity
\* unchanged, whether they succeed or fail.
C18_SplitLeavesStock ==
    [][last'.op \in {"split_order", "delete_split_order"} => items' = items]_vars

\* a split has been made and deleted again
C18_Witness ==
    /\ last.op = "delete_split_order"
    /\ last.committed
    /\ orders[last.new].exists

(***************************************************************************)
(* Concurrent split_order calls on one original order.  Each call runs in  *)
(* a session of its own; its first statement is SELECT ... FOR UPDATE on   *)
(* the order row, which waits while another transaction holds the row      *)
(* lock, and the lock is held until the commit or rollback of the call.    *)
(***************************************************************************)
\* the order rows of the contended original and of one split per session
SplitRaceOrderIds == 1..(RaceSessions + 1)

\* the order the sessions split
Contended == 1

\* the lines of the contended order before the calls
RaceLines == [item_id : ItemIds, quantity : 1..MaxSplitQty]
RaceOrderLines ==
    UNION {{[k \in 1..n |-> OrderLine(l[k].item_id, l[k].quantity,
                                      ItemPrice(l[k].item_id))] :
                l \in [1..n -> RaceLines]} : n \in 1..MaxLines}

\* the split request of a session: one line
RaceSplitRequests == {<<d>> : d \in SplitLines}

\* the SELECT does not wait for the row lock
LockIgnored(holder) == TRUE

\* .with_for_update(): the row is returned once no other transaction holds
\* its lock
LockFree(holder) == holder = 0

\* the locking SELECT of the order and the selectinload of its order items:
\* both read the rows as committed when the lock is granted
SplitLock(p) ==
    /\ pc[p] = "start"
    /\ LockFree(lock)
    /\ lock' = p
    /\ snap' = [snap EXCEPT ![p] = orders[Contended]]
    /\ pc' = [pc EXCEPT ![p] = "locked"]
    /\ UNCHANGED <<orderVars, last, req, stock0, billVars, stockVars, bookingVars, authVars, cacheVars>>

\* validation, the update loop, the payment links and the commit (or the
\* rollback of the except clauses), all on the rows the session loaded
SplitFinish(p) ==
    /\ pc[p] = "locked"
    /\ LET v == SplitValidate(snap[p].lines, req[p], <<>>, 0, <<>>)
           a == ApplyUpdates(snap[p].lines, snap[p].total_amount, v.updates, {})
           id == nextId + 1
       IN  IF v.err # "ok"
           THEN /\ pc' = [pc EXCEPT ![p] = v.err]
                /\ UNCHANGED orderVars
           ELSE \E linkOk \in BOOLEAN :
                LET written == [orders EXCEPT
                        ![id] = [exists |-> TRUE, total_amount |-> v.total,
                                 is_split |-> TRUE, original_order_id |-> Contended,
                                 payment_url |-> IF linkOk THEN "link" ELSE "none",
                                 lines |-> v.lines, status |-> "New"],
                        ![Contended].lines = a.lines,
                        ![Contended].total_amount = a.total,
                        ![Contended].payment_url = IF linkOk THEN "link" ELSE @]
                IN  /\ orders' = IF linkOk THEN written ELSE RolledBack(orders, written)
                    /\ nextId' = IF orders' = orders THEN nextId ELSE id
                    /\ pc' = [pc EXCEPT ![p] = IF linkOk THEN "committed"
                                               ELSE "PaymentLinkError"]
                    /\ UNCHANGED items
    /\ lock' = IF lock = p THEN 0 ELSE lock
    /\ UNCHANGED <<last, snap, req, stock0, billVars, stockVars, bookingVars, authVars, cacheVars>>

InitSplitRace ==
    /\ items \in {t \in ItemTables : \A i \in ItemIds : t[i].quantity = MaxStock}
    /\ \E lines \in RaceOrderLines :
        orders = [o \in SplitRaceOrderIds |->
                    IF o = Contended
                    THEN NewOrderRow(o, [lines |-> lines, total |-> LinesTotal(lines)],
                                     TRUE)
                    ELSE Absent]
    /\ stock0 = orders
    /\ lock = 0
    /\ nextId = Contended
    /\ last = NoCall
    /\ pc = [p \in Sessions |-> "start"]
    /\ snap = [p \in Sessions |-> Absent]
    /\ req \in [Sessions -> RaceSplitRequests]
    /\ BillIdle
    /\ StockIdle
    /\ AuthIdle
    /\ CacheIdle
    /\ BookingIdle

NextSplitRace == \E p \in Sessions : SplitLock(p) \/ SplitFinish(p)

SpecSplitRace == InitSplitRace /\ [][NextSplitRace]_vars

\* the split orders of the contended order
SplitsOf(tbl) ==
    {o \in SplitRaceOrderIds :
        tbl[o].exists /\ tbl[o].is_split /\ tbl[o].original_order_id = Contended}

\* sum of total_amount over the orders S
RECURSIVE TotalOver(_, _)
TotalOver(tbl, S) ==
    IF S = {} THEN 0
    ELSE LET o == CHOOSE x \in S : TRUE IN
         tbl[o].total_amount + TotalOver(tbl, S \ {o})

\* units of item i on the lines of the orders S
RECURSIVE UnitsOver(_, _, _)
UnitsOver(tbl, S, i) ==
    IF S = {} THEN 0
    ELSE LET o == CHOOSE x \in S : TRUE IN
         QtyOf(tbl[o].lines, i) + UnitsOver(tbl, S \ {o}, i)

SplitRaceDone == \A p \in Sessions : pc[p] \notin {"start", "locked"}

\* C19: concurrent split_order calls on one order are serialised by the row
\* lock: a call validates against the order and lines as committed (what an
\* earlier call left), and when both calls are over the split orders' totals
\* plus the original's remaining total are the original's total before, and
\* for every item the units of the split orders plus the units left on the
\* original are the units the original had.
C19_SplitsSerialised ==
    /\ \A p \in Sessions : pc[p] = "locked" => snap[p] = orders[Contended]
    /\ SplitRaceDone =>
        /\ TotalOver(orders, SplitsOf(orders)) + orders[Contended].total_amount
               = stock0[Contended].total_amount
        /\ \A i \in ItemIds :
            UnitsOver(orders, SplitsOf(orders), i) + QtyOf(orders[Contended].lines, i)
                = QtyOf(stock0[Contended].lines, i)

\* both calls asked for the only unit of the same line: one committed, the
\* other was rejected against what the first left
C19_Witness ==
    /\ SplitRaceDone
    /\ req[1] = req[2]
    /\ Len(stock0[Contended].lines) = 1
    /\ stock0[Contended].lines[1].quantity = 1
    /\ req[1][1].item_id = stock0[Contended].lines[1].item_id
    /\ req[1][1].quantity = 1
    /\ Cardinality({p \in Sessions : pc[p] = "committed"}) = 1
    /\ \E p \in Sessions : pc[p] = "ItemNotInOrder"
    /\ Cardinality(SplitsOf(orders)) = 1

(***************************************************************************)
(* update_order_status and the life cycle of an order.                     *)
(***************************************************************************)
\* OrderStatusEnum
OrderStatusEnum == {"New", "In progress", "Ready", "Completed", "cancelled"}

\* COMPLETED and CANCELLED
TerminalStatuses == {"Completed", "cancelled"}

\* the statuses a request carries here: the initial one and the two
\* terminal ones
StatusRequests == {"New"} \cup TerminalStatuses

\* the order of the caller's company is loaded (no lock), its status is
\* overwritten with the requested one and committed; then the two order-list
\* keys are deleted, both with the company's id
\* select(Order).where(Order.id == order_id, Order.company_id == user_id)
StatusFinds(row, user) == row.exists /\ OrderCompany = CompanyIdOf(user)

UpdateOrderStatusAs(user, o, status_data) ==
    /\ IF ~StatusFinds(orders[o], user)
       THEN /\ last' = CallBy(user, "update_order_status", "NotFound", FALSE, o, NoOrder, <<>>)
            /\ UNCHANGED orderVars
       ELSE \E cacheUp \in BOOLEAN :
            /\ orders' = [orders EXCEPT ![o].status = status_data]
            /\ last' = [WithEnv(CallBy(user, "update_order_status",
                                     IF cacheUp THEN "Ok" ELSE "InternalError",
                                     TRUE, o, NoOrder, <<>>),
                                TRUE, cacheUp,
                                IF cacheUp
                                THEN {CompanyOrdersKey(CompanyIdOf(user)),
                                      GuestOrdersKey(CompanyIdOf(user))}
                                ELSE {})
                        EXCEPT !.link = "unused"]
            /\ UNCHANGED <<items, nextId>>
    /\ UNCHANGED <<raceVars, billVars, stockVars, bookingVars, authVars, cacheVars>>

UpdateOrderStatus(o, status_data) == UpdateOrderStatusAs(OrderCompany, o, status_data)

\* every item fully stocked
InitStatus ==
    /\ items \in {t \in ItemTables : \A i \in ItemIds : t[i].quantity = MaxStock}
    /\ orders = [o \in OrderIds |-> Absent]
    /\ nextId = 0
    /\ last = NoCall
    /\ RaceIdle
    /\ BillIdle
    /\ StockIdle
    /\ AuthIdle
    /\ CacheIdle
    /\ BookingIdle

NextStatus ==
    \/ \E cart \in Carts : CreateOrder(cart)
    \/ \E o \in OrderIds, cart \in Carts : UpdateOrder(o, cart)
    \/ \E o \in OrderIds, request \in SplitRequests : SplitOrder(o, request)
    \/ \E s \in OrderIds : DeleteSplitOrder(s)
    \/ \E o \in OrderIds, status_data \in StatusRequests : UpdateOrderStatus(o, status_data)

SpecStatus == InitStatus /\ [][NextStatus]_vars

\* C20: an order whose status is COMPLETED or CANCELLED is immutable: no
\* later update_order_status, update_order, split_order or
\* delete_split_order changes its status, its lines or its total_amount.
C20_TerminalOrdersImmutable ==
    [][\A o \in OrderIds :
        orders[o].exists /\ orders[o].status \in TerminalStatuses =>
            /\ orders'[o].status = orders[o].status
            /\ orders'[o].lines = orders[o].lines
            /\ orders'[o].total_amount = orders[o].total_amount]_vars

(***************************************************************************)
(* The order operations called by any user.                                *)
(***************************************************************************)
\* carts of one line
UnitCarts == {cart \in Carts : Len(cart) = 1}

NextOwner ==
    \/ \E cart \in UnitCarts : CreateOrder(cart)
    \/ \E user \in Users, o \in OrderIds, cart \in UnitCarts :
            UpdateOrderAs(user, o, cart)
    \/ \E user \in Users, o \in OrderIds, request \in RaceSplitRequests :
            SplitOrderAs(user, o, request)
    \/ \E user \in Users, s \in OrderIds : DeleteSplitOrderAs(user, s)
    \/ \E user \in Users, o \in OrderIds, status_data \in TerminalStatuses :
            UpdateOrderStatusAs(user, o, status_data)

SpecOwner == InitStatus /\ [][NextOwner]_vars

\* the operations that change an existing order
MutatingOps == {"update_order", "split_order", "delete_split_order", "update_order_status"}

\* C21: update_order, split_order, delete_split_order and update_order_status
\* called by a user who is neither the order's guest nor of the order's
\* company are rejected and change no order.
C21_OnlyOwnersMutate ==
    [][(/\ last' # last
        /\ last'.op \in MutatingOps
        /\ last'.user # OrderGuest
        /\ CompanyIdOf(last'.user) # OrderCompany)
       => /\ orders' = orders
          /\ ~last'.committed]_vars

(***************************************************************************)
(* Stock entries: add_new_stock and update_stock, with create_order.       *)
(***************************************************************************)
\* number of item_stocks rows
MaxStockEntries == 2

\* ItemStockSchema.quantity as a stock keeper enters it: a count of units
\* (the schema field itself is an unconstrained int)
StockQuantities == 0..MaxStock

\* an ItemStock row
ItemStock(i, q) == [item_id |-> i, quantity |-> q]

\* the new entry is inserted and item.quantity += new_stock.quantity
AddNewStock(item_id, stock) ==
    /\ Len(item_stocks) < MaxStockEntries
    /\ item_id \in ItemIds
    /\ items[item_id].quantity + stock <= MaxStock
    /\ item_stocks' = Append(item_stocks, ItemStock(item_id, stock))
    /\ items' = [items EXCEPT ![item_id].quantity = @ + stock]
    /\ last' = Call("add_new_stock", "Ok", TRUE, NoOrder, NoOrder, <<>>)
    /\ UNCHANGED <<orders, nextId, raceVars, billVars, bookingVars, authVars, cacheVars>>

\* item.quantity -= existing_stock.quantity; existing_stock.quantity =
\* stock.quantity; item.quantity += existing_stock.quantity
StockReplaced(quantity, old, new) == (quantity - old) + new

UpdateStock(stock_id, stock) ==
    /\ stock_id \in DOMAIN item_stocks
    /\ LET existing_stock == item_stocks[stock_id]
           i == existing_stock.item_id
       IN  /\ StockReplaced(items[i].quantity, existing_stock.quantity, stock) <= MaxStock
           /\ items' = [items EXCEPT ![i].quantity =
                            StockReplaced(@, existing_stock.quantity, stock)]
           /\ item_stocks' = [item_stocks EXCEPT ![stock_id].quantity = stock]
    /\ last' = Call("update_stock", "Ok", TRUE, NoOrder, NoOrder, <<>>)
    /\ UNCHANGED <<orders, nextId, raceVars, billVars, bookingVars, authVars, cacheVars>>

\* items as create_item leaves them: quantity 0, no stock entry
InitStock ==
    /\ items = [i \in ItemIds |-> [quantity |-> 0, price |-> ItemPrice(i)]]
    /\ orders = [o \in OrderIds |-> Absent]
    /\ nextId = 0
    /\ last = NoCall
    /\ RaceIdle
    /\ BillIdle
    /\ StockIdle
    /\ AuthIdle
    /\ CacheIdle
    /\ BookingIdle

NextStock ==
    \/ \E item_id \in ItemIds, stock \in StockQuantities : AddNewStock(item_id, stock)
    \/ \E stock_id \in 1..MaxStockEntries, stock \in StockQuantities :
            UpdateStock(stock_id, stock)
    \/ \E cart \in Carts : CreateOrder(cart)

SpecStock == InitStock /\ [][NextStock]_vars

\* C22: Item.quantity is never negative, after any sequence of create_order,
\* add_new_stock and update_stock.
C22_QuantityNeverNegative == \A i \in ItemIds : items[i].quantity >= 0

(***************************************************************************)
(* Password reset: request_password_reset and confirm_password_reset.      *)
(***************************************************************************)
\* number of reset tokens issued
MaxTokens == 2
\* the clock runs from 0 to MaxClock; one unit is the life of a token
MaxClock == 3
\* settings.PASSWORD_RESET_TOKEN_EXPIRE_HOURS, in units of the clock
ExpireTime == 1

Tokens == 1..MaxTokens
\* the tokens a confirmation may present: an issued one or one never issued
PresentedTokens == 1..(MaxTokens + 1)
NewPasswords == {"new1", "new2"}

\* a PasswordReset row
PasswordReset(expires_at) == [expires_at |-> expires_at, is_used |-> FALSE]

AuthCall(op, result, committed, token, new_password) ==
    [op |-> op, result |-> result, committed |-> committed, token |-> token,
     new_password |-> new_password]

\* time passes
Tick ==
    /\ now < MaxClock
    /\ now' = now + 1
    /\ UNCHANGED <<orderVars, last, raceVars, billVars, stockVars, password_resets,
                   password, cacheVars, bookingVars>>

\* a fresh token for the user, valid for ExpireTime
RequestPasswordReset ==
    /\ Len(password_resets) < MaxTokens
    /\ password_resets' = Append(password_resets, PasswordReset(now + ExpireTime))
    /\ last' = AuthCall("request_password_reset", "Ok", TRUE,
                        Len(password_resets) + 1, "")
    /\ UNCHANGED <<orderVars, raceVars, billVars, stockVars, password, now,
                   cacheVars, bookingVars>>

\* the row the SELECT of confirm_password_reset returns: the token's, not
\* expired and not used
ResetFound(token) ==
    /\ token \in DOMAIN password_resets
    /\ password_resets[token].expires_at > now
    /\ ~password_resets[token].is_used

\* (RefreshToken).where(...).values(is_revoked=True), the argument of
\* db.execute: the mapped class has no attribute "where" (sqlalchemy.update
\* is not imported), so evaluating it raises AttributeError
RevokeStatement == "AttributeError"

ConfirmPasswordReset(token, new_password) ==
    /\ IF ~ResetFound(token)
       THEN /\ last' = AuthCall("confirm_password_reset", "InvalidToken", FALSE,
                                token, new_password)
            /\ UNCHANGED <<password_resets, password>>
       ELSE LET marked == [password_resets EXCEPT ![token].is_used = TRUE] IN
            IF RevokeStatement # "ok"
            THEN \* no handler catches it: nothing is committed
                 /\ last' = AuthCall("confirm_password_reset", "InternalError", FALSE,
                                     token, new_password)
                 /\ password_resets' = Discarded(password_resets, marked)
                 /\ password' = Discarded(password, new_password)
            ELSE /\ last' = AuthCall("confirm_password_reset", "Ok", TRUE,
                                     token, new_password)
                 /\ password_resets' = marked
                 /\ password' = new_password
    /\ UNCHANGED <<orderVars, raceVars, billVars, stockVars, now, cacheVars,
                   bookingVars>>

InitAuth ==
    /\ OrdersIdle
    /\ RaceIdle
    /\ BillIdle
    /\ StockIdle
    /\ password_resets = <<>>
    /\ password = "old"
    /\ now = 0
    /\ CacheIdle
    /\ BookingIdle

NextAuth ==
    \/ Tick
    \/ RequestPasswordReset
    \/ \E token \in PresentedTokens, new_password \in NewPasswords :
            ConfirmPasswordReset(token, new_password)

SpecAuth == InitAuth /\ [][NextAuth]_vars

\* C23: a password-reset token is single-use: confirm_password_reset with an
\* issued, unexpired and unused token succeeds, sets the password and leaves
\* the token's is_used flag true; with a used, expired or unknown token it is
\* rejected and leaves the password unchanged.
C23_TokenSingleUse ==
    [][last' # last /\ last'.op = "confirm_password_reset" =>
        IF ResetFound(last'.token)
        THEN /\ last'.result = "Ok"
             /\ password_resets'[last'.token].is_used
             /\ password' = last'.new_password
        ELSE /\ last'.result = "InvalidToken"
             /\ password' = password
             /\ password_resets' = password_resets]_vars

(***************************************************************************)
(* The payment links of split_order.                                       *)
(***************************************************************************)
\* C24: after a committed split_order the payment link of the original order
\* was requested for the original's updated total_amount and the link of the
\* split order for the split order's total_amount.
C24_LinkAmountsAreTotals ==
    (last.op = "split_order" /\ last.committed) =>
        /\ last.amounts.split = orders[last.new].total_amount
        /\ last.amounts.original = orders[last.order].total_amount

(***************************************************************************)
(* Availability checks before a booking is written.                        *)
(***************************************************************************)
\* the handlers that write a booking's room or time fields
BookingWriters == {"create_event_booking", "update_event_booking"}

\* C25 is about the calls of create_event_booking and update_event_booking
\* that persist a booking.  No such call exists: both handlers read an
\* attribute their request schema does not declare (selected_room, room_name)
\* before any write, so every call ends with an error and nothing committed.
BookingWritersNeverCommit ==
    ~(last.op \in BookingWriters /\ last.committed)

(***************************************************************************)
(* The cached list of meeting rooms: get_company_meeting_rooms racing      *)
(* update_meeting_room.  rooms is the version of the company's room data   *)
(* in the database; the cache holds the version a reader stored.           *)
(***************************************************************************)
\* the callers: the company itself and one of its staff
RoomCallers == {"tenant", "staff"}

\* User.id and User.company_id of the callers
UserId(user) == user
CompanyOfUser(user) == "tenant"

\* check_current_user_id: current_user.id for a company user, company_id
\* for anyone else
CheckCurrentUserId(user) ==
    IF user = "tenant" THEN UserId(user) ELSE CompanyOfUser(user)

\* f"rooms:company:{...}"
RoomsKey(id) == <<"rooms:company", id>>
RoomKeys == {RoomsKey(UserId(u)) : u \in RoomCallers}

\* a key that is not in the cache
NoValue == 0 - 1

\* the sessions: readers first, the writer last
Readers == Sessions
Writer == RaceSessions + 1
CacheSessions == Readers \cup {Writer}

\* cached_data = redis_client.get(cache_key): a hit is returned as it is
ReadCache(p) ==
    /\ p \in Readers
    /\ pc[p] = "start"
    /\ LET cache_key == RoomsKey(CheckCurrentUserId(req[p])) IN
       pc' = [pc EXCEPT ![p] = IF cache[cache_key] # NoValue THEN "hit" ELSE "miss"]
    /\ UNCHANGED <<orderVars, last, snap, req, stock0, lock, billVars, stockVars,
                   authVars, cacheVars, bookingVars>>

\* result = await db.execute(query)
ReadRooms(p) ==
    /\ p \in Readers
    /\ pc[p] = "miss"
    /\ snap' = [snap EXCEPT ![p] = rooms]
    /\ pc' = [pc EXCEPT ![p] = "loaded"]
    /\ UNCHANGED <<orderVars, last, req, stock0, lock, billVars, stockVars,
                   authVars, cacheVars, bookingVars>>

\* redis_client.set(cache_key, ...)
FillCache(p) ==
    /\ p \in Readers
    /\ pc[p] = "loaded"
    /\ cache' = [cache EXCEPT ![RoomsKey(CheckCurrentUserId(req[p]))] = snap[p]]
    /\ pc' = [pc EXCEPT ![p] = "filled"]
    /\ UNCHANGED <<orderVars, last, snap, req, stock0, lock, billVars, stockVars,
                   authVars, rooms, bookingVars>>

\* update_meeting_room: setattr on the room and await db.commit()
CommitRoom(p) ==
    /\ p = Writer
    /\ pc[p] = "start"
    /\ rooms' = rooms + 1
    /\ pc' = [pc EXCEPT ![p] = "committed"]
    /\ UNCHANGED <<orderVars, last, snap, req, stock0, lock, billVars, stockVars,
                   authVars, cache, bookingVars>>

\* cache_key = f"rooms:company:{current_user.id}"; redis_client.delete
InvalidateRooms(p) ==
    /\ p = Writer
    /\ pc[p] = "committed"
    /\ cache' = [cache EXCEPT ![RoomsKey(UserId(req[p]))] = NoValue]
    /\ pc' = [pc EXCEPT ![p] = "done"]
    /\ UNCHANGED <<orderVars, last, snap, req, stock0, lock, billVars, stockVars,
                   authVars, rooms, bookingVars>>

\* the cache as earlier reads left it: a key is absent or holds the data
InitCacheRace ==
    /\ OrdersIdle
    /\ BillIdle
    /\ StockIdle
    /\ AuthIdle
    /\ BookingIdle
    /\ rooms = 0
    /\ cache \in [RoomKeys -> {NoValue, 0}]
    /\ pc = [p \in CacheSessions |-> "start"]
    /\ snap = [p \in CacheSessions |-> NoValue]
    /\ req \in [CacheSessions -> RoomCallers]
    /\ stock0 = <<>>
    /\ lock = 0

NextCacheRace ==
    \E p \in CacheSessions :
        \/ ReadCache(p)
        \/ ReadRooms(p)
        \/ FillCache(p)
        \/ CommitRoom(p)
        \/ InvalidateRooms(p)

SpecCacheRace == InitCacheRace /\ [][NextCacheRace]_vars

CacheRaceDone == \A p \in CacheSessions : pc[p] \in {"hit", "filled", "done"}

Splitter == 1
Appender == 2

\* select(Order).options(selectinload(Order.order_items)): no FOR UPDATE
UpdateLoad(p) ==
    /\ p = Appender
    /\ pc[p] = "start"
    /\ snap' = [snap EXCEPT ![p] = orders[Contended]]
    /\ pc' = [pc EXCEPT ![p] = "loaded"]
    /\ UNCHANGED <<orderVars, last, req, stock0, lock, billVars, stockVars,
                   authVars, cacheVars, bookingVars>>

\* the rows the flush of update_order writes: the appended order items are
\* inserted, total_amount is set to the loaded total plus the new lines
UpdateFlush(row, loaded, added) ==
    [row EXCEPT !.lines = @ \o added,
                !.total_amount = loaded.total_amount + LinesTotal(added)]

\* the loop over the new items and db.commit()
UpdateCommit(p) ==
    /\ p = Appender
    /\ pc[p] = "loaded"
    /\ LET missing == {req[p][k].item_id : k \in DOMAIN req[p]} \ ItemIds IN
       IF missing # {}
       THEN /\ pc' = [pc EXCEPT ![p] = "ItemNotFound"]
            /\ UNCHANGED orders
       ELSE /\ LockFree(lock)
            /\ orders' = [orders EXCEPT ![Contended] =
                            UpdateFlush(@, snap[p], AppendedLines(items, req[p]))]
            /\ pc' = [pc EXCEPT ![p] = "committed"]
    /\ UNCHANGED <<items, nextId, last, snap, req, stock0, lock, billVars, stockVars,
                   authVars, cacheVars, bookingVars>>

InitSplitUpdate ==
    /\ items \in {t \in ItemTables : \A i \in ItemIds : t[i].quantity = MaxStock}
    /\ \E lines \in RaceOrderLines :
        orders = [o \in SplitRaceOrderIds |->
                    IF o = Contended
                    THEN NewOrderRow(o, [lines |-> lines, total |-> LinesTotal(lines)],
                                     TRUE)
                    ELSE Absent]
    /\ stock0 = orders
    /\ lock = 0
    /\ nextId = Contended
    /\ last = NoCall
    /\ pc = [p \in Sessions |-> "start"]
    /\ snap = [p \in Sessions |-> Absent]
    /\ \E request \in RaceSplitRequests, cart \in UnitCarts :
        req = [p \in Sessions |-> IF p = Splitter THEN request ELSE cart]
    /\ BillIdle
    /\ StockIdle
    /\ AuthIdle
    /\ CacheIdle
    /\ BookingIdle

NextSplitUpdate ==
    \/ SplitLock(Splitter)
    \/ SplitFinish(Splitter)
    \/ UpdateLoad(Appender)
    \/ UpdateCommit(Appender)

SpecSplitUpdate == InitSplitUpdate /\ [][NextSplitUpdate]_vars

\* C27: when split_order and update_order run concurrently on one order,
\* neither loses the other's writes: once both are over the original's
\* total_amount is the sum of price x quantity of its lines, and with the
\* split orders' totals it is the total before plus the appended lines.
C27_SplitAndUpdateKeepBoth ==
    SplitRaceDone =>
        /\ orders[Contended].total_amount = LinesTotal(orders[Contended].lines)
        /\ TotalOver(orders, SplitsOf(orders)) + orders[Contended].total_amount
            = stock0[Contended].total_amount
              + (IF pc[Appender] = "committed"
                 THEN LinesTotal(AppendedLines(items, req[Appender])) ELSE 0)

(***************************************************************************)
(* Units in stock and units on order lines.                                *)
(***************************************************************************)
\* the units of item i in a state: in stock and on the lines of all orders
UnitsOf(its, tbl, i) == its[i].quantity + UnitsOver(tbl, OrderIds, i)

\* C28: every unit on an order line was reserved from stock: no step of
\* create_order, update_order, split_order or delete_split_order changes,
\* for any item, Item.quantity plus the item's line quantities over all
\* orders; and a committed update_order appended no more units of an item
\* than were in stock.
C28_UnitsConserved ==
    [][/\ \A i \in ItemIds : UnitsOf(items', orders', i) = UnitsOf(items, orders, i)
       /\ Committed("update_order") =>
            \A i \in ItemIds : QtyOf(last'.cart, i) <= items[i].quantity]_vars

(***************************************************************************)
(* Two delete_split_order calls racing on one split order.  The split      *)
(* order is loaded with a plain SELECT; only the original order is loaded  *)
(* FOR UPDATE, so the second session waits there and then reads the        *)
(* original as the first one committed it, while it still holds the split  *)
(* order's lines as it loaded them.  The DELETE of a row that is already   *)
(* gone matches no row, which the ORM reports as a warning (the mappers    *)
(* set neither confirm_deleted_rows nor a version column).                 *)
(***************************************************************************)
\* the id split_order gave the split order of the contended order
SplitOff == Contended + 1

\* the orders table after a committed split_order of the contended order
SplitTables ==
    {[o \in SplitRaceOrderIds |->
        IF o = Contended
        THEN [NewOrderRow(o, [lines |-> lines, total |-> LinesTotal(lines)], TRUE)
                EXCEPT !.lines = ApplyUpdates(lines, LinesTotal(lines),
                                   SplitValidate(lines, request, <<>>, 0, <<>>).updates,
                                   {}).lines,
                       !.total_amount = ApplyUpdates(lines, LinesTotal(lines),
                                   SplitValidate(lines, request, <<>>, 0, <<>>).updates,
                                   {}).total]
        ELSE IF o = SplitOff
        THEN [exists |-> TRUE,
              total_amount |-> SplitValidate(lines, request, <<>>, 0, <<>>).total,
              is_split |-> TRUE, original_order_id |-> Contended,
              payment_url |-> "link",
              lines |-> SplitValidate(lines, request, <<>>, 0, <<>>).lines,
              status |-> "New"]
        ELSE Absent] :
     <<lines, request>> \in
        {x \in RaceOrderLines \X RaceSplitRequests :
            SplitValidate(x[1], x[2], <<>>, 0, <<>>).err = "ok"}}

\* select(Order).where(Order.id == split_order_id)...: no FOR UPDATE
DeleteLoad(p) ==
    /\ pc[p] = "start"
    /\ IF ~DeleteSplitFinds(orders[req[p]], OrderGuest)
       THEN /\ pc' = [pc EXCEPT ![p] = "NotFound"]
            /\ UNCHANGED snap
       ELSE IF orders[req[p]].original_order_id = NoOrder
       THEN /\ pc' = [pc EXCEPT ![p] = "NotASplitOrder"]
            /\ UNCHANGED snap
       ELSE /\ snap' = [snap EXCEPT ![p] = orders[req[p]]]
            /\ pc' = [pc EXCEPT ![p] = "loaded"]
    /\ UNCHANGED <<orderVars, last, req, stock0, lock, billVars, stockVars,
                   authVars, cacheVars, bookingVars>>

\* select(Order).where(Order.id == split_order.original_order_id)
\* .with_for_update(): waits for the transaction that holds the row
DeleteLock(p) ==
    /\ pc[p] = "loaded"
    /\ LockFree(lock)
    /\ lock' = p
    /\ pc' = [pc EXCEPT ![p] = "locked"]
    /\ UNCHANGED <<orderVars, last, snap, req, stock0, billVars, stockVars,
                   authVars, cacheVars, bookingVars>>

\* the loop over split_order.order_items, the payment link, db.delete and
\* db.commit (or the rollback of the except clauses)
DeleteFinish(p) ==
    /\ pc[p] = "locked"
    /\ LET o == snap[p].original_order_id
           m == MergeBack(orders[o].lines, orders[o].total_amount, snap[p].lines)
       IN  \E linkOk \in BOOLEAN :
           LET written == [orders EXCEPT ![o].lines = m.lines,
                                         ![o].total_amount = m.total,
                                         ![o].payment_url = "link",
                                         ![req[p]] = Absent]
           IN  /\ orders' = IF linkOk THEN written ELSE RolledBack(orders, written)
               /\ pc' = [pc EXCEPT ![p] = IF linkOk THEN "committed"
                                          ELSE "PaymentLinkError"]
    /\ lock' = 0
    /\ UNCHANGED <<items, nextId, last, snap, req, stock0, billVars, stockVars,
                   authVars, cacheVars, bookingVars>>

InitDeleteRace ==
    /\ items \in {t \in ItemTables : \A i \in ItemIds : t[i].quantity = MaxStock}
    /\ orders \in SplitTables
    /\ stock0 = orders
    /\ lock = 0
    /\ nextId = SplitOff
    /\ last = NoCall
    /\ pc = [p \in Sessions |-> "start"]
    /\ snap = [p \in Sessions |-> Absent]
    /\ req = [p \in Sessions |-> SplitOff]
    /\ BillIdle
    /\ StockIdle
    /\ AuthIdle
    /\ CacheIdle
    /\ BookingIdle

NextDeleteRace == \E p \in Sessions : DeleteLoad(p) \/ DeleteLock(p) \/ DeleteFinish(p)

SpecDeleteRace == InitDeleteRace /\ [][NextDeleteRace]_vars

DeleteRaceDone == \A p \in Sessions : pc[p] \notin {"start", "loaded", "locked"}

\* the sessions whose delete_split_order committed
DeleteCommitted == {p \in Sessions : pc[p] = "committed"}

\* C29: two concurrent delete_split_order calls for one split order return
\* its lines and total to the original at most once: when both are over at
\* most one of them has committed, and the original's total_amount and line
\* quantities are those before the calls plus, if one committed, the split
\* order's.
C29_SplitReturnedOnce ==
    DeleteRaceDone =>
        LET back == IF DeleteCommitted = {} THEN {} ELSE {SplitOff} IN
        /\ Cardinality(DeleteCommitted) <= 1
        /\ orders[Contended].total_amount
            = stock0[Contended].total_amount + TotalOver(stock0, back)
        /\ \A i \in ItemIds :
            QtyOf(orders[Contended].lines, i)
                = QtyOf(stock0[Contended].lines, i) + UnitsOver(stock0, back, i)

(***************************************************************************)
(* Split lineage: split_order accepts any order of the guest, a split      *)
(* order included, and Order.original_order_id is a plain nullable column  *)
(* (no ForeignKey), so nothing ties it to the row it names.                *)
(***************************************************************************)
\* the order that exists before the calls; the split orders take the ids
\* 1..MaxOrders
LineageRoot == MaxOrders + 1
LineageOrderIds == OrderIds \cup {LineageRoot}

InitLineage ==
    /\ items \in {t \in ItemTables : \A i \in ItemIds : t[i].quantity = MaxStock}
    /\ \E lines \in RaceOrderLines :
        orders = [o \in LineageOrderIds |->
                    IF o = LineageRoot
                    THEN NewOrderRow(o, [lines |-> lines, total |-> LinesTotal(lines)],
                                     TRUE)
                    ELSE Absent]
    /\ nextId = 0
    /\ last = NoCall
    /\ RaceIdle
    /\ BillIdle
    /\ StockIdle
    /\ AuthIdle
    /\ CacheIdle
    /\ BookingIdle

NextLineage ==
    \/ \E o \in LineageOrderIds, request \in RaceSplitRequests : SplitOrder(o, request)
    \/ \E s \in LineageOrderIds : DeleteSplitOrder(s)

SpecLineage == InitLineage /\ [][NextLineage]_vars

\* C30: after any sequence of split_order and delete_split_order, every
\* existing order with is_split = true has an original_order_id that names
\* an existing order.
C30_LineageResolvable ==
    \A o \in LineageOrderIds :
        (orders[o].exists /\ orders[o].is_split) =>
            /\ orders[o].original_order_id # NoOrder
            /\ orders[orders[o].original_order_id].exists

====
